---- MODULE Spec2Model ----
(***************************************************************************)
(* filewatch::FileWatch (include/filewatch.hpp): one session object, its   *)
(* constructing/destroying thread, its monitoring thread and its dispatch  *)
(* thread, over both notification backends (inotify and                    *)
(* ReadDirectoryChangesW).                                                 *)
(***************************************************************************)
EXTENDS Integers, Sequences, FiniteSets, TLC

\* Bounds of the model.
MaxOps == 2        \* file-system operations the environment performs
MaxAssign == 1     \* copy assignments applied to the session object

Backends == {"unix", "win"}

(***************************************************************************)
(* Paths and names are sequences of characters.                            *)
(***************************************************************************)
DirPath == <<"d">>                 \* an existing directory
FilePath == <<"d", "/", "a">>      \* an existing regular file inside it
MissingPath == <<"x">>             \* a path that does not exist
Paths == {DirPath, FilePath, MissingPath}

NameA == <<"a">>
NameB == <<"b">>
SubA == <<"s", "\\", "a">>         \* entry a of sub-directory s (subtree watching)

\* Faulty variant: the result of stat() is not looked at, so a path that does not
\* exist is taken for a directory.
PathKind_unchecked(path) ==
    IF path = FilePath THEN "file" ELSE "dir"

\* What the file system answers for a path (stat / GetFileAttributes).
PathKind(path) ==
    IF path = DirPath THEN "dir" ELSE IF path = FilePath THEN "file" ELSE "missing"

\* the separator predicate of split_directory_and_file
predict(be, character) ==
    IF be = "win" THEN character = "\\" \/ character = "/" ELSE character = "/"

\* Index just past the last separator of path (0 when there is none):
\* std::find_if(path.rbegin(), path.rend(), predict).base()
RECURSIVE pivot(_, _, _)
pivot(be, path, k) ==
    IF k = 0 THEN 0
    ELSE IF predict(be, path[k]) THEN k
    ELSE pivot(be, path, k - 1)

this_directory == <<".", "/">>

split_directory_and_file(be, path) ==
    LET p == pivot(be, path, Len(path))
        extracted_directory == SubSeq(path, 1, p)
    IN  [directory |-> IF Len(extracted_directory) > 0 THEN extracted_directory
                       ELSE this_directory,
         filename  |-> SubSeq(path, p + 1, Len(path))]

pass_filter(be, single, fname, file_path) ==
    IF single THEN split_directory_and_file(be, file_path).filename = fname
    ELSE TRUE

(***************************************************************************)
(* Raw notification records and their translation.                         *)
(***************************************************************************)
FILE_ACTION_ADDED == 1
FILE_ACTION_REMOVED == 2
FILE_ACTION_MODIFIED == 3
FILE_ACTION_RENAMED_OLD_NAME == 4
FILE_ACTION_RENAMED_NEW_NAME == 5

\* _event_type_mapping (Windows); "out_of_range" is what std::map::at throws
event_type_mapping(action) ==
    CASE action = FILE_ACTION_ADDED -> "CREATED"
      [] action = FILE_ACTION_REMOVED -> "DELETED"
      [] action = FILE_ACTION_MODIFIED -> "CHANGED"
      [] action = FILE_ACTION_RENAMED_OLD_NAME -> "RENAMED_OLD"
      [] action = FILE_ACTION_RENAMED_NEW_NAME -> "RENAMED_NEW"
      [] OTHER -> "out_of_range"

\* the inotify mask the watch is registered with
listen_filters == {"IN_MODIFY", "IN_CREATE", "IN_DELETE"}

\* the if / else-if chain over event->mask (unix)
mask_event(mask) ==
    IF "IN_CREATE" \in mask THEN "CREATED"
    ELSE IF "IN_DELETE" \in mask THEN "DELETED"
    ELSE IF "IN_MODIFY" \in mask THEN "CHANGED"
    ELSE "none"

\* The inner while loop of the unix monitor_directory over one read() buffer.
RECURSIVE parse_unix(_, _, _)
parse_unix(single, fname, recs) ==
    IF recs = <<>> THEN <<>>
    ELSE LET r == Head(recs)
             rest == parse_unix(single, fname, Tail(recs))
         IN  IF Len(r.name) > 0
                /\ pass_filter("unix", single, fname, r.name)
                /\ mask_event(r.mask) # "none"
             THEN <<[name |-> r.name, event |-> mask_event(r.mask), id |-> r.id,
                    cause |-> r.cause]>> \o rest
             ELSE rest

\* The FILE_NOTIFY_INFORMATION loop of the Windows monitor_directory.
RECURSIVE parse_win(_, _, _)
parse_win(single, fname, recs) ==
    IF recs = <<>> THEN <<>>
    ELSE LET r == Head(recs)
             rest == parse_win(single, fname, Tail(recs))
         IN  IF pass_filter("win", single, fname, r.name)
             THEN <<[name |-> r.name, event |-> event_type_mapping(r.action), id |-> r.id,
                    cause |-> r.cause]>> \o rest
             ELSE rest

\* whether _event_type_mapping.at() throws while the buffer is decoded
parse_win_throws(single, fname, recs) ==
    \E i \in 1..Len(recs) :
        /\ pass_filter("win", single, fname, recs[i].name)
        /\ event_type_mapping(recs[i].action) = "out_of_range"

(***************************************************************************)
(* The file-system operations of the environment and the records the OS    *)
(* reports for them.                                                       *)
(***************************************************************************)
Ops == { [kind |-> "create", name |-> NameB, to |-> <<>>],
         [kind |-> "delete", name |-> NameB, to |-> <<>>],
         [kind |-> "modify", name |-> NameA, to |-> <<>>],
         [kind |-> "rename", name |-> NameA, to |-> NameB],
         [kind |-> "modify", name |-> SubA,  to |-> <<>>],
         \* a change the OS reports with a code the translation has no entry for
         [kind |-> "other",  name |-> NameA, to |-> <<>>] }

IsDirect(name) == \A i \in 1..Len(name) : name[i] \notin {"/", "\\"}

\* inotify: one event per operation on a direct entry, if its bit is in the
\* registered mask; a rename raises IN_MOVED_FROM / IN_MOVED_TO.
inotify_events(op) ==
    IF ~IsDirect(op.name) THEN <<>>
    ELSE CASE op.kind = "create" -> << [name |-> op.name, mask |-> {"IN_CREATE"}, cause |-> op.kind] >>
           [] op.kind = "delete" -> << [name |-> op.name, mask |-> {"IN_DELETE"}, cause |-> op.kind] >>
           [] op.kind = "modify" -> << [name |-> op.name, mask |-> {"IN_MODIFY"}, cause |-> op.kind] >>
           [] op.kind = "rename" -> << [name |-> op.name, mask |-> {"IN_MOVED_FROM"}, cause |-> op.kind],
                                       [name |-> op.to,   mask |-> {"IN_MOVED_TO"}, cause |-> op.kind] >>
           [] op.kind = "other"  -> << [name |-> op.name, mask |-> {"IN_ATTRIB"}, cause |-> op.kind] >>

RECURSIVE masked(_, _)
masked(evs, filters) ==
    IF evs = <<>> THEN <<>>
    ELSE IF Head(evs).mask \cap filters # {} THEN <<Head(evs)>> \o masked(Tail(evs), filters)
    ELSE masked(Tail(evs), filters)

\* ReadDirectoryChangesW with bWatchSubtree = true: names relative to the
\* watched directory, entries of sub-directories included.
dirchange_records(op) ==
    CASE op.kind = "create" -> << [name |-> op.name, action |-> FILE_ACTION_ADDED, cause |-> op.kind] >>
      [] op.kind = "delete" -> << [name |-> op.name, action |-> FILE_ACTION_REMOVED, cause |-> op.kind] >>
      [] op.kind = "modify" -> << [name |-> op.name, action |-> FILE_ACTION_MODIFIED, cause |-> op.kind] >>
      [] op.kind = "rename" -> << [name |-> op.name, action |-> FILE_ACTION_RENAMED_OLD_NAME, cause |-> op.kind],
                                  [name |-> op.to,   action |-> FILE_ACTION_RENAMED_NEW_NAME, cause |-> op.kind] >>
      \* an Action value that is none of the five FILE_ACTION_* keys
      [] op.kind = "other"  -> << [name |-> op.name, action |-> 0, cause |-> op.kind] >>

\* number the records in the order the OS reports them
RECURSIVE numbered(_, _)
numbered(recs, first) ==
    IF recs = <<>> THEN <<>>
    ELSE <<[id |-> first] @@ Head(recs)>> \o numbered(Tail(recs), first + 1)

(***************************************************************************)
(* State.                                                                  *)
(***************************************************************************)
VARIABLES
    backend,                \* which #ifdef branch is compiled
    mainPc,                 \* position of the thread that owns the object
    op,                     \* public operation in progress: "ctor", "assign", "dtor"
    other,                  \* right-hand side of the copy assignment: [path, callback]
    assigns,                \* copy assignments started so far
    raised,                 \* what the last public operation threw ("none" if nothing)
    _path, _callback,       \* _callback: TRUE when the std::function holds a target
    _watching_single_file, _filename,
    _destroy,
    _directory,             \* the OS handle held (0: none)
    _close_event,           \* Windows: "null", "clear" or "set"
    _running,               \* shared state of the promise: "unset", "value", "exception"
    runningBy,              \* which thread completed _running
    watchPc, parsed_information, async_pending,
    cbPc, callback_information,
    _callback_mutex,        \* owner: "free", "watch" or "cb"
    cvSignalled,            \* a notify_all reached the dispatch thread blocked in wait
    _callback_information,
    osOpen, nHandles,       \* open OS handles, handles ever opened
    osWatch,                \* handle the OS reports changes on (0: none)
    osQueue,                \* records the OS holds for the next read
    nOps, nextId,           \* operations performed, next record number
    removed,                \* the watched directory has been removed
    expected,               \* callback invocations owed for the operations on direct
                            \* entries of a constructed, unstopped directory session
    delivered,              \* invocations of the user callback, in order
    spawned,                \* threads ever started
    destroyed,              \* calls of destroy() that have returned
    escaped,                \* an exception left callback_thread()
    doubleClose,            \* a handle was closed that was not open
    inCallback              \* invocations of the user callback entered and not yet ended

mainVars == <<mainPc, op, other, assigns, raised>>
objVars == <<_path, _callback, _watching_single_file, _filename, _directory>>
syncVars == <<_destroy, _close_event, _running, runningBy, _callback_mutex, cvSignalled,
              _callback_information>>
watchVars == <<watchPc, parsed_information, async_pending>>
cbVars == <<cbPc, callback_information>>
osVars == <<osOpen, nHandles, osWatch, osQueue, nOps, nextId, removed>>
ghostVars == <<expected, delivered, spawned, destroyed, escaped, doubleClose, inCallback>>
vars == <<backend, mainVars, objVars, syncVars, watchVars, cbVars, osVars, ghostVars>>

Init ==
    /\ backend \in Backends
    /\ mainPc = "ctor" /\ op = "ctor"
    /\ other = [path |-> <<>>, callback |-> FALSE]
    /\ assigns = 0 /\ raised = "none"
    /\ _path = <<>> /\ _callback = FALSE
    /\ _watching_single_file = FALSE /\ _filename = <<>>
    /\ _destroy = FALSE
    /\ _directory = 0
    /\ _close_event = "null"
    /\ _running = "unset" /\ runningBy = "none"
    /\ watchPc = "none" /\ parsed_information = <<>> /\ async_pending = FALSE
    /\ cbPc = "none" /\ callback_information = <<>>
    /\ _callback_mutex = "free" /\ cvSignalled = FALSE
    /\ _callback_information = <<>>
    /\ osOpen = {} /\ nHandles = 0 /\ osWatch = 0 /\ osQueue = <<>>
    /\ nOps = 0 /\ nextId = 1 /\ removed = FALSE
    /\ expected = 0 /\ delivered = <<>>
    /\ spawned = 0 /\ destroyed = 0 /\ escaped = FALSE /\ doubleClose = FALSE
    /\ inCallback = 0

(***************************************************************************)
(* The owning thread: constructor, copy assignment, destructor.            *)
(***************************************************************************)

\* Where an exception thrown by the public operation in progress leaves the
\* owning thread.  A constructor that throws leaves no object; operator=
\* returns to the caller with the object as it is; anything that leaves the
\* destructor, or that unwinds joinable std::thread members, is std::terminate.
Throw(what) ==
    /\ raised' = what
    /\ mainPc' = IF op = "assign" THEN "live"
                 ELSE IF op = "ctor" /\ watchPc = "none" /\ cbPc = "none" THEN "failed"
                 ELSE "terminated"
    /\ UNCHANGED <<op, other, assigns>>

\* stat(path) / GetFileAttributes(path) at the time of the call: nothing is
\* found under a directory that has been removed
path_kind(path) == IF removed THEN "missing" ELSE PathKind(path)

\* get_directory(path), both backends.  initOk, watchOk: whether inotify_init
\* and inotify_add_watch / CreateFile succeed.
get_directory(path, initOk, watchOk) ==
    LET h == nHandles + 1
        single == path_kind(path) = "file"
        parts == split_directory_and_file(backend, path)
    IN
    IF backend = "unix" /\ ~initOk THEN
        /\ Throw("system_error")
        /\ UNCHANGED <<_watching_single_file, _filename, _directory, osOpen, nHandles,
                       osWatch, osQueue>>
    ELSE IF path_kind(path) = "missing" THEN
        \* is_file() / GetFileAttributes fail; the inotify descriptor stays open
        /\ Throw("system_error")
        /\ osOpen' = IF backend = "unix" THEN osOpen \cup {h} ELSE osOpen
        /\ nHandles' = IF backend = "unix" THEN h ELSE nHandles
        /\ UNCHANGED <<_watching_single_file, _filename, _directory, osWatch, osQueue>>
    ELSE
        /\ _watching_single_file' = single
        /\ _filename' = IF single THEN parts.filename ELSE _filename
        /\ IF watchOk THEN
              /\ _directory' = h
              /\ osOpen' = osOpen \cup {h}
              /\ nHandles' = h
              \* inotify reports from inotify_add_watch on; a directory handle
              \* reports nothing before the first ReadDirectoryChangesW
              /\ osWatch' = IF backend = "unix" THEN h ELSE 0
              /\ osQueue' = <<>>
              /\ mainPc' = IF backend = "win" THEN "init_event" ELSE "init_cb"
              /\ UNCHANGED <<op, other, assigns, raised>>
           ELSE
              /\ Throw("system_error")
              /\ osOpen' = IF backend = "unix" THEN osOpen \cup {h} ELSE osOpen
              /\ nHandles' = IF backend = "unix" THEN h ELSE nHandles
              /\ UNCHANGED <<_directory, osWatch, osQueue>>

\* FileWatch(path, callback): the member initialisers, up to init()
Constructor ==
    /\ mainPc = "ctor"
    /\ \E path \in Paths, callback \in BOOLEAN, initOk \in BOOLEAN, watchOk \in BOOLEAN :
          /\ _path' = path
          /\ _callback' = callback
          /\ get_directory(path, initOk, watchOk)
    /\ UNCHANGED <<backend, syncVars, watchVars, cbVars, nOps, nextId, removed,
                   ghostVars>>

\* init(): _close_event = CreateEvent(...) (Windows only)
InitCloseEvent ==
    /\ mainPc = "init_event"
    /\ \E ok \in BOOLEAN :
          IF ok THEN /\ _close_event' = "clear"
                     /\ mainPc' = "init_cb"
                     /\ UNCHANGED <<op, other, assigns, raised>>
          ELSE /\ Throw("system_error")
               /\ UNCHANGED _close_event
    /\ UNCHANGED <<backend, objVars, _destroy, _running, runningBy, _callback_mutex,
                   cvSignalled, _callback_information, watchVars, cbVars, osVars, ghostVars>>

\* Faulty variant: init() clears the stop flag before it starts the threads.
InitSpawnCallback_resetflag ==
    /\ mainPc = "init_cb"
    /\ mainPc' = "init_watch"
    /\ cbPc' = "loop"
    /\ spawned' = spawned + 1
    /\ _destroy' = FALSE
    /\ UNCHANGED <<backend, op, other, assigns, raised, objVars, _close_event, _running,
                   runningBy, _callback_mutex, cvSignalled, _callback_information,
                   watchVars, callback_information, osVars, expected, delivered, destroyed,
                   escaped, doubleClose, inCallback>>

\* init(): _callback_thread = std::thread(...)
InitSpawnCallback ==
    /\ mainPc = "init_cb"
    /\ mainPc' = "init_watch"
    /\ cbPc' = "loop"
    /\ spawned' = spawned + 1
    /\ UNCHANGED <<backend, op, other, assigns, raised, objVars, syncVars, watchVars,
                   callback_information, osVars, expected, delivered, destroyed,
                   escaped, doubleClose, inCallback>>

\* init(): _watch_thread = std::thread(...)
InitSpawnWatch ==
    /\ mainPc = "init_watch"
    /\ mainPc' = "init_wait"
    /\ watchPc' = "start"
    /\ spawned' = spawned + 1
    /\ UNCHANGED <<backend, op, other, assigns, raised, objVars, syncVars,
                   parsed_information, async_pending, cbVars, osVars, expected, delivered,
                   destroyed, escaped, doubleClose, inCallback>>

\* Faulty variant: init() returns without waiting on the future.
InitWait_noblock ==
    /\ mainPc = "init_wait"
    /\ mainPc' = "live"
    /\ raised' = "none"
    /\ UNCHANGED <<op, other, assigns>>
    /\ UNCHANGED <<backend, objVars, syncVars, watchVars, cbVars, osVars, ghostVars>>

\* init(): _running.get_future().get()
InitWait ==
    /\ mainPc = "init_wait"
    /\ _running # "unset"
    /\ IF _running = "value"
       THEN /\ mainPc' = "live"
            /\ raised' = "none"
            /\ UNCHANGED <<op, other, assigns>>
       ELSE Throw("stored_exception")
    /\ UNCHANGED <<backend, objVars, syncVars, watchVars, cbVars, osVars, ghostVars>>

\* ~FileWatch()
Destructor ==
    /\ mainPc = "live"
    /\ mainPc' = "d_flag"
    /\ op' = "dtor"
    /\ UNCHANGED <<backend, other, assigns, raised, objVars, syncVars, watchVars, cbVars,
                   osVars, ghostVars>>

\* operator=(other), this != &other
CopyAssign ==
    /\ mainPc = "live"
    /\ assigns < MaxAssign
    /\ mainPc' = "d_flag"
    /\ op' = "assign"
    /\ assigns' = assigns + 1
    /\ raised' = "none"
    /\ \E path \in Paths : other' = [path |-> path, callback |-> TRUE]
    /\ UNCHANGED <<backend, objVars, syncVars, watchVars, cbVars, osVars, ghostVars>>

\* destroy(): _destroy = true
DestroySetFlag ==
    /\ mainPc = "d_flag"
    /\ mainPc' = "d_promise"
    /\ _destroy' = TRUE
    /\ UNCHANGED <<backend, op, other, assigns, raised, objVars, _close_event, _running,
                   runningBy, _callback_mutex, cvSignalled, _callback_information,
                   watchVars, cbVars, osVars, ghostVars>>

\* destroy(): _running = std::promise<void>()
DestroyResetPromise ==
    /\ mainPc = "d_promise"
    /\ mainPc' = "d_wake"
    /\ _running' = "unset"
    /\ runningBy' = "none"
    /\ UNCHANGED <<backend, op, other, assigns, raised, objVars, _destroy, _close_event,
                   _callback_mutex, cvSignalled, _callback_information, watchVars, cbVars,
                   osVars, ghostVars>>

\* destroy(): SetEvent(_close_event) / inotify_rm_watch(folder, watch).
\* Removing a live watch makes the kernel queue IN_IGNORED; removing one that
\* is gone fails and queues nothing.
DestroyWake ==
    /\ mainPc = "d_wake"
    /\ mainPc' = "d_notify"
    /\ IF backend = "win"
       THEN /\ _close_event' = IF _close_event = "null" THEN "null" ELSE "set"
            /\ UNCHANGED <<osWatch, osQueue>>
       ELSE /\ IF _directory # 0 /\ _directory \in osOpen /\ osWatch = _directory
               THEN /\ osWatch' = 0
                    /\ osQueue' = Append(osQueue, [name |-> <<>>, mask |-> {"IN_IGNORED"}, cause |-> "rm_watch", id |-> 0])
               ELSE UNCHANGED <<osWatch, osQueue>>
            /\ UNCHANGED _close_event
    /\ UNCHANGED <<backend, op, other, assigns, raised, objVars, _destroy, _running,
                   runningBy, _callback_mutex, cvSignalled, _callback_information,
                   watchVars, cbVars, osOpen, nHandles, nOps, nextId, removed,
                   ghostVars>>

\* destroy(): _cv.notify_all()
DestroyNotify ==
    /\ mainPc = "d_notify"
    /\ mainPc' = "d_join_watch"
    /\ cvSignalled' = (cvSignalled \/ cbPc = "waiting")
    /\ UNCHANGED <<backend, op, other, assigns, raised, objVars, _destroy, _close_event,
                   _running, runningBy, _callback_mutex, _callback_information, watchVars,
                   cbVars, osVars, ghostVars>>

\* Faulty variant: destroy() goes on without joining the monitoring thread.
DestroyJoinWatch_nojoin ==
    /\ mainPc = "d_join_watch"
    /\ mainPc' = "d_join_cb"
    /\ UNCHANGED <<op, other, assigns, raised, watchPc>>
    /\ UNCHANGED <<backend, objVars, syncVars, parsed_information, async_pending, cbVars,
                   osVars, ghostVars>>

\* destroy(): _watch_thread.join(); joining a thread object that holds no
\* thread throws std::system_error
DestroyJoinWatch ==
    /\ mainPc = "d_join_watch"
    /\ watchPc \in {"none", "done"}
    /\ IF watchPc = "done"
       THEN /\ watchPc' = "none"
            /\ mainPc' = "d_join_cb"
            /\ UNCHANGED <<op, other, assigns, raised>>
       ELSE /\ Throw("system_error")
            /\ UNCHANGED watchPc
    /\ UNCHANGED <<backend, objVars, syncVars, parsed_information, async_pending, cbVars,
                   osVars, ghostVars>>

\* Faulty variant: destroy() goes on without joining the dispatch thread.
DestroyJoinCallback_nojoin ==
    /\ mainPc = "d_join_cb"
    /\ mainPc' = "d_close"
    /\ UNCHANGED <<op, other, assigns, raised, cbPc>>
    /\ UNCHANGED <<backend, objVars, syncVars, watchVars, callback_information, osVars,
                   ghostVars>>

\* destroy(): _callback_thread.join()
DestroyJoinCallback ==
    /\ mainPc = "d_join_cb"
    /\ cbPc \in {"none", "done"}
    /\ IF cbPc = "done"
       THEN /\ cbPc' = "none"
            /\ mainPc' = "d_close"
            /\ UNCHANGED <<op, other, assigns, raised>>
       ELSE /\ Throw("system_error")
            /\ UNCHANGED cbPc
    /\ UNCHANGED <<backend, objVars, syncVars, watchVars, callback_information, osVars,
                   ghostVars>>

\* destroy(): CloseHandle(_directory) / close(_directory.folder)
DestroyClose ==
    /\ mainPc = "d_close"
    /\ mainPc' = IF op = "dtor" THEN "destructed" ELSE "a_copy"
    /\ osOpen' = osOpen \ {_directory}
    /\ osWatch' = IF osWatch = _directory THEN 0 ELSE osWatch
    /\ osQueue' = IF _directory \in osOpen THEN <<>> ELSE osQueue
    /\ doubleClose' = (doubleClose \/ _directory \notin osOpen)
    /\ destroyed' = destroyed + 1
    /\ UNCHANGED <<backend, op, other, assigns, raised, objVars, syncVars, watchVars,
                   cbVars, nHandles, nOps, nextId, removed, expected, delivered,
                   spawned,
                   escaped, inCallback>>

\* operator=: _path = other._path; _callback = other._callback;
\* _directory = get_directory(other._path)
AssignCopy ==
    /\ mainPc = "a_copy"
    /\ _path' = other.path
    /\ _callback' = other.callback
    /\ \E initOk \in BOOLEAN, watchOk \in BOOLEAN : get_directory(other.path, initOk, watchOk)
    /\ UNCHANGED <<backend, syncVars, watchVars, cbVars, nOps, nextId, removed,
                   ghostVars>>

Main ==
    \/ Constructor \/ InitCloseEvent \/ InitSpawnCallback \/ InitSpawnWatch \/ InitWait
    \/ Destructor \/ CopyAssign
    \/ DestroySetFlag \/ DestroyResetPromise \/ DestroyWake \/ DestroyNotify
    \/ DestroyJoinWatch \/ DestroyJoinCallback \/ DestroyClose \/ AssignCopy

(***************************************************************************)
(* The monitoring thread: the lambda of init() around monitor_directory(). *)
(***************************************************************************)

\* _running.set_value(); on a promise that is already satisfied it throws
\* std::future_error, which the lambda catches, and its set_exception()
\* throws again and is swallowed: the thread ends.
WatchStart ==
    /\ watchPc = "start"
    /\ IF _running = "unset"
       THEN /\ _running' = "value"
            /\ runningBy' = "watch"
            /\ watchPc' = IF backend = "win" THEN "issue" ELSE "check"
       ELSE /\ watchPc' = "done"
            /\ UNCHANGED <<_running, runningBy>>
    /\ UNCHANGED <<backend, mainVars, objVars, _destroy, _close_event, _callback_mutex,
                   cvSignalled, _callback_information, parsed_information, async_pending,
                   cbVars, osVars, ghostVars>>

\* while (_destroy == false); Windows, on leaving the loop:
\* if (async_pending) { CancelIo(...); GetOverlappedResult(...); }
WatchCheck ==
    /\ watchPc = "check"
    /\ IF _destroy
       THEN /\ watchPc' = "done"
            /\ async_pending' = FALSE
       ELSE /\ watchPc' = IF backend = "win" THEN "issue" ELSE "read"
            /\ UNCHANGED async_pending
    /\ UNCHANGED <<backend, mainVars, objVars, syncVars, parsed_information, cbVars, osVars,
                   ghostVars>>

\* unix: read() blocks until the inotify queue holds a record, then the
\* buffer is decoded
WatchRead ==
    /\ watchPc = "read"
    /\ osQueue # <<>>
    /\ parsed_information' = parse_unix(_watching_single_file, _filename, osQueue)
    /\ osQueue' = <<>>
    /\ watchPc' = "lock"
    /\ UNCHANGED <<backend, mainVars, objVars, syncVars, async_pending, cbVars, osOpen,
                   nHandles, osWatch, nOps, nextId, removed,
                   ghostVars>>

\* Windows: ReadDirectoryChangesW(...); async_pending = true
WatchIssue ==
    /\ watchPc = "issue"
    /\ osWatch' = IF _directory \in osOpen /\ ~removed THEN _directory ELSE osWatch
    /\ async_pending' = TRUE
    /\ parsed_information' = <<>>
    /\ watchPc' = "wait"
    /\ UNCHANGED <<backend, mainVars, objVars, syncVars, cbVars, osOpen, nHandles, osQueue,
                   nOps, nextId, removed,
                   ghostVars>>

\* whether GetOverlappedResult reports that the request failed
io_failed(recs) == \E i \in 1..Len(recs) : recs[i].cause = "rmdir"

\* Windows: WaitForMultipleObjects over {overlapped event, _close_event};
\* the lowest signalled index wins
WatchWait ==
    /\ watchPc = "wait"
    /\ osQueue # <<>> \/ _close_event = "set"
    /\ IF osQueue # <<>>
       THEN /\ async_pending' = FALSE
            /\ osQueue' = <<>>
            /\ IF io_failed(osQueue)
                  \/ parse_win_throws(_watching_single_file, _filename, osQueue)
               THEN \* std::system_error / std::out_of_range leaves monitor_directory()
                    /\ watchPc' = "done"
                    /\ _running' = IF _running = "unset" THEN "exception" ELSE _running
                    /\ runningBy' = IF _running = "unset" THEN "watch" ELSE runningBy
                    /\ UNCHANGED parsed_information
               ELSE /\ parsed_information' = parse_win(_watching_single_file, _filename, osQueue)
                    /\ watchPc' = "lock"
                    /\ UNCHANGED <<_running, runningBy>>
       ELSE /\ watchPc' = "lock"
            /\ UNCHANGED <<async_pending, osQueue, parsed_information, _running, runningBy>>
    /\ UNCHANGED <<backend, mainVars, objVars, _destroy, _close_event, _callback_mutex,
                   cvSignalled, _callback_information, cbVars, osOpen, nHandles, osWatch,
                   nOps, nextId, removed,
                   ghostVars>>

\* Faulty variant: the batch is inserted at the front of the queue.
insert_batch_front(queue, batch) == batch \o queue

\* the producer's append
insert_batch(queue, batch) == queue \o batch

\* Faulty variant: the producer appends without notifying the condition variable.
WatchInsert_nonotify ==
    /\ watchPc = "lock"
    /\ _callback_mutex = "free"
    /\ _callback_information' = insert_batch(_callback_information, parsed_information)
    /\ parsed_information' = <<>>
    /\ watchPc' = "check"
    /\ UNCHANGED <<backend, mainVars, objVars, _destroy, _close_event, _running, runningBy,
                   _callback_mutex, cvSignalled, async_pending, cbVars, osVars, ghostVars>>

\* std::lock_guard lock(_callback_mutex); _callback_information.insert(end, ...);
\* _cv.notify_all(); the guard ends with the block
WatchInsert ==
    /\ watchPc = "lock"
    /\ _callback_mutex = "free"
    /\ _callback_information' = insert_batch(_callback_information, parsed_information)
    /\ cvSignalled' = (cvSignalled \/ cbPc = "waiting")
    /\ parsed_information' = <<>>
    /\ watchPc' = "check"
    /\ UNCHANGED <<backend, mainVars, objVars, _destroy, _close_event, _running, runningBy,
                   _callback_mutex, async_pending, cbVars, osVars, ghostVars>>

Watch ==
    \/ WatchStart \/ WatchCheck \/ WatchRead \/ WatchIssue \/ WatchWait \/ WatchInsert

(***************************************************************************)
(* The dispatch thread: the lambda of init() around callback_thread().     *)
(***************************************************************************)

\* while (_destroy == false)
CbLoop ==
    /\ cbPc = "loop"
    /\ cbPc' = IF _destroy THEN "done" ELSE "lock"
    /\ UNCHANGED <<backend, mainVars, objVars, syncVars, watchVars, callback_information,
                   osVars, ghostVars>>

\* the predicate of _cv.wait
wait_predicate == Len(_callback_information) > 0 \/ _destroy

\* Faulty variant: the lock is kept while the batch is processed.
swap_and_keep_lock ==
    /\ callback_information' = _callback_information
    /\ _callback_information' = <<>>
    /\ _callback_mutex' = "cb"
    /\ cbPc' = IF _callback_information = <<>> THEN "loop" ELSE "dispatch"

\* std::swap(callback_information, _callback_information); lock.unlock();
\* an empty batch ends the for loop at once
swap_and_unlock ==
    /\ callback_information' = _callback_information
    /\ _callback_information' = <<>>
    /\ _callback_mutex' = "free"
    /\ cbPc' = IF _callback_information = <<>> THEN "loop" ELSE "dispatch"

\* std::unique_lock lock(_callback_mutex); if (empty && !_destroy) and the
\* first evaluation of the wait predicate, with the mutex held
CbLock ==
    /\ cbPc = "lock"
    /\ _callback_mutex = "free"
    /\ IF _callback_information = <<>> /\ ~_destroy /\ ~wait_predicate
       THEN /\ _callback_mutex' = "cb"
            /\ cbPc' = "pre_wait"
            /\ UNCHANGED <<callback_information, _callback_information>>
       ELSE swap_and_unlock
    /\ UNCHANGED <<backend, mainVars, objVars, _destroy, _close_event, _running, runningBy,
                   cvSignalled, watchVars, osVars, ghostVars>>

\* condition_variable::wait: release the mutex and block, atomically
CbBlock ==
    /\ cbPc = "pre_wait"
    /\ _callback_mutex' = "free"
    /\ cvSignalled' = FALSE
    /\ cbPc' = "waiting"
    /\ UNCHANGED <<backend, mainVars, objVars, _destroy, _close_event, _running, runningBy,
                   _callback_information, watchVars, callback_information, osVars,
                   ghostVars>>

\* woken by notify_all: take the mutex again and evaluate the predicate
CbWake ==
    /\ cbPc = "waiting"
    /\ cvSignalled
    /\ _callback_mutex = "free"
    /\ cvSignalled' = FALSE
    /\ IF wait_predicate
       THEN swap_and_unlock
       ELSE /\ _callback_mutex' = "cb"
            /\ cbPc' = "pre_wait"
            /\ UNCHANGED <<callback_information, _callback_information>>
    /\ UNCHANGED <<backend, mainVars, objVars, _destroy, _close_event, _running, runningBy,
                   watchVars, osVars, ghostVars>>

\* the run of init() the live worker threads were started by
Session == (spawned + 1) \div 2

\* the element the for loop visits next
next_event(batch) == Head(batch)

\* where the for loop stands once the element at the head is done with
after_event(batch) == IF Tail(batch) = <<>> THEN "loop" ELSE "dispatch"

\* Faulty variant: the loop starts the invocation and goes on to the next
\* element without waiting for it to end.
CbDispatch_detached ==
    /\ cbPc = "dispatch"
    /\ callback_information' = Tail(callback_information)
    /\ cbPc' = after_event(callback_information)
    /\ IF ~_callback
       THEN UNCHANGED <<delivered, inCallback>>
       ELSE /\ delivered' = Append(delivered,
                                   [name |-> next_event(callback_information).name,
                                    event |-> next_event(callback_information).event,
                                    id |-> next_event(callback_information).id,
                                    cause |-> next_event(callback_information).cause,
                                    session |-> Session,
                                    single |-> _watching_single_file,
                                    filename |-> _filename])
            /\ inCallback' = inCallback + 1
    /\ UNCHANGED <<backend, mainVars, objVars, syncVars, watchVars, osVars, expected,
                   spawned, destroyed, escaped, doubleClose>>

\* for (const auto& file : callback_information): if (!_callback) continue;
\* _callback(file.first, file.second)
CbDispatch ==
    /\ cbPc = "dispatch"
    /\ IF ~_callback
       THEN /\ callback_information' = Tail(callback_information)
            /\ cbPc' = after_event(callback_information)
            /\ UNCHANGED <<delivered, inCallback>>
       ELSE /\ delivered' = Append(delivered,
                                   [name |-> next_event(callback_information).name,
                                    event |-> next_event(callback_information).event,
                                    id |-> next_event(callback_information).id,
                                    cause |-> next_event(callback_information).cause,
                                    session |-> Session,
                                    single |-> _watching_single_file,
                                    filename |-> _filename])
            /\ cbPc' = "in_callback"
            /\ inCallback' = inCallback + 1
            /\ UNCHANGED callback_information
    /\ UNCHANGED <<backend, mainVars, objVars, syncVars, watchVars, osVars, expected,
                   spawned, destroyed, escaped, doubleClose>>

\* How the user callback can end.
Outcomes == {"return", "std_exception", "other_exception"}

\* catch (const std::exception&) { }
caught(outcome) == outcome = "std_exception"

\* The callback returns or throws.  What the catch clause does not catch
\* leaves callback_thread() and reaches the lambda's catch (...), whose
\* _running.set_exception() throws in turn if the promise is satisfied.
CbReturn ==
    /\ cbPc = "in_callback"
    /\ inCallback' = inCallback - 1
    /\ \E outcome \in Outcomes :
          IF outcome = "return" \/ caught(outcome)
          THEN /\ callback_information' = Tail(callback_information)
               /\ cbPc' = after_event(callback_information)
               /\ UNCHANGED <<_running, runningBy, escaped>>
          ELSE /\ callback_information' = <<>>
               /\ cbPc' = "done"
               /\ escaped' = TRUE
               /\ _running' = IF _running = "unset" THEN "exception" ELSE _running
               /\ runningBy' = IF _running = "unset" THEN "cb" ELSE runningBy
    /\ UNCHANGED <<backend, mainVars, objVars, _destroy, _close_event, _callback_mutex,
                   cvSignalled, _callback_information, watchVars, osVars, expected, delivered,
                   spawned, destroyed, doubleClose>>

Dispatch == CbLoop \/ CbLock \/ CbBlock \/ CbWake \/ CbDispatch \/ CbReturn

(***************************************************************************)
(* The environment: an operation on the file system.                       *)
(***************************************************************************)
os_records(o) ==
    IF osWatch = 0 THEN <<>>
    ELSE IF backend = "unix" THEN masked(inotify_events(o), listen_filters)
    ELSE dirchange_records(o)

\* Operations are considered from the return of the constructor on, as long
\* as the object exists.
OsOp ==
    /\ nOps < MaxOps
    /\ ~removed
    /\ mainPc \notin {"ctor", "failed", "destructed", "terminated"}
    /\ op = "ctor" => mainPc = "live"
    /\ \E o \in Ops :
          /\ osQueue' = osQueue \o numbered(os_records(o), nextId)
          /\ nextId' = nextId + Len(os_records(o))
          /\ expected' = IF mainPc = "live" /\ ~_destroy /\ ~_watching_single_file
                             /\ IsDirect(o.name)
                          THEN expected + (CASE o.kind = "rename" -> 2
                                             [] o.kind = "other" -> 0
                                             [] OTHER -> 1)
                          ELSE expected
    /\ nOps' = nOps + 1
    /\ UNCHANGED <<backend, mainVars, objVars, syncVars, watchVars, cbVars, osOpen,
                   nHandles, osWatch, removed, delivered, spawned, destroyed, escaped,
                   doubleClose, inCallback>>

\* What the OS reports when the watched directory itself is removed.  inotify
\* drops the watch and queues IN_IGNORED (IN_DELETE_SELF is not in the mask);
\* a pending ReadDirectoryChangesW completes with an error.
removal_record ==
    IF backend = "unix"
    THEN [name |-> <<>>, mask |-> {"IN_IGNORED"}, cause |-> "rmdir", id |-> 0]
    ELSE [name |-> <<>>, action |-> 0, cause |-> "rmdir", id |-> 0]

\* The watched directory is removed.
OsRemoveDirectory ==
    /\ nOps < MaxOps
    /\ ~removed
    /\ mainPc \notin {"ctor", "failed", "destructed", "terminated"}
    /\ op = "ctor" => mainPc = "live"
    /\ removed' = TRUE
    /\ nOps' = nOps + 1
    /\ osWatch' = 0
    /\ osQueue' = IF osWatch # 0 /\ (backend = "unix" \/ osQueue = <<>>)
                  THEN Append(osQueue, removal_record)
                  ELSE osQueue
    /\ UNCHANGED <<backend, mainVars, objVars, syncVars, watchVars, cbVars, osOpen,
                   nHandles, nextId, ghostVars>>

Next == Main \/ Watch \/ Dispatch \/ OsOp \/ OsRemoveDirectory

Spec == Init /\ [][Next]_vars

\* The steps inside a public operation, once the caller has entered it.
MainProgress ==
    \/ InitCloseEvent \/ InitSpawnCallback \/ InitSpawnWatch \/ InitWait
    \/ DestroySetFlag \/ DestroyResetPromise \/ DestroyWake \/ DestroyNotify
    \/ DestroyJoinWatch \/ DestroyJoinCallback \/ DestroyClose \/ AssignCopy

\* Fair scheduling of the three threads; the caller is free never to destroy
\* or assign, and the environment free never to touch the directory.
FairSpec ==
    Spec /\ WF_vars(MainProgress) /\ WF_vars(Watch) /\ WF_vars(Dispatch)

\* The life of a session between its construction and its teardown: the
\* caller calls neither destroy() nor operator=, so the stop flag stays clear.
InitSteps == InitCloseEvent \/ InitSpawnCallback \/ InitSpawnWatch \/ InitWait

Running == Constructor \/ InitSteps \/ Watch \/ Dispatch \/ OsOp \/ OsRemoveDirectory

RunSpec ==
    Init /\ [][Running]_vars /\ WF_vars(InitSteps) /\ WF_vars(Watch) /\ WF_vars(Dispatch)

(***************************************************************************)
(* Properties.                                                             *)
(***************************************************************************)

InDestroy ==
    mainPc \in {"d_flag", "d_promise", "d_wake", "d_notify", "d_join_watch", "d_join_cb",
                "d_close"}

\* destroy() has just returned to the destructor or to operator=
DestroyReturned == mainPc \in {"destructed", "a_copy"}

\* C1: a call of destroy() always returns when the threads are scheduled
\* fairly and callbacks end: while destroy() is in progress it is never the
\* case that neither the caller nor a worker thread can take another step.
C1_DestroyNeverStuck == InDestroy => ENABLED (MainProgress \/ Watch \/ Dispatch)

\* C2: once destroy() has returned both worker threads of the session have
\* been joined, no callback invocation is in progress, and the callback is
\* not invoked again by a thread of a session whose destroy() has returned.
C2_Quiescence ==
    /\ [](DestroyReturned => watchPc = "none" /\ cbPc = "none")
    /\ [][delivered' # delivered => delivered'[Len(delivered')].session > destroyed]_vars

C2_Witness == mainPc = "destructed" /\ Len(delivered) >= 2

\* operator= has returned without an error
AssignReturned == mainPc = "live" /\ op = "assign" /\ raised = "none"

\* C3: after a copy assignment has returned without error the monitoring and
\* the dispatch thread of the session are running their loops.
C3_AssignedSessionIsLive ==
    AssignReturned => watchPc \notin {"none", "done"} /\ cbPc \notin {"none", "done"}

\* C4: whatever the callback throws is discarded inside the dispatch loop:
\* no exception leaves callback_thread(), and the dispatch thread does not
\* end while the stop flag is clear.
C4_CallbackErrorsDiscarded == ~escaped /\ (cbPc = "done" => _destroy)

\* C5: the callback sees the records in the order the OS reported them.
C5_Fifo ==
    \A j, k \in 1..Len(delivered) : j < k => delivered[j].id < delivered[k].id

C5_Witness == Len(delivered) >= 2 /\ _callback_information # <<>>

\* C6: on a single-file session every name passed to the callback is the
\* watched base filename.
C6_SingleFileFilter ==
    \A k \in 1..Len(delivered) :
        delivered[k].single => delivered[k].name = delivered[k].filename

\* the Event variant C7 calls for, by the operation behind the record and
\* the name the record carries
MatchingVariant(d) ==
    CASE d.cause = "create" -> "CREATED"
      [] d.cause = "delete" -> "DELETED"
      [] d.cause = "modify" -> "CHANGED"
      [] d.cause = "rename" -> IF d.name = NameA THEN "RENAMED_OLD" ELSE "RENAMED_NEW"
      [] OTHER -> "none"

DirectDelivered == SelectSeq(delivered, LAMBDA d : IsDirect(d.name))

\* a constructed directory session with nothing left to process
QuietDirectorySession ==
    /\ mainPc = "live" /\ op = "ctor" /\ ~_destroy /\ ~removed
    /\ ~_watching_single_file /\ _callback /\ ~escaped
    /\ osQueue = <<>> /\ watchPc \in {"read", "wait"} /\ parsed_information = <<>>
    /\ _callback_information = <<>> /\ callback_information = <<>> /\ cbPc = "waiting"

\* C7: on a directory session every create, delete and modify of a direct
\* entry gives one callback invocation with the matching variant and every
\* rename gives two, RENAMED_OLD then RENAMED_NEW.
C7_DirectoryEventMapping ==
    QuietDirectorySession =>
        /\ Len(DirectDelivered) = expected
        /\ \A k \in 1..Len(DirectDelivered) :
              DirectDelivered[k].event = MatchingVariant(DirectDelivered[k])

\* C8: init() returns normally only after the monitoring thread has completed
\* the readiness promise, with both worker threads started; a constructor
\* that does not return raises a setup error.
C8_ConstructionWaitsForReadiness ==
    /\ (mainPc = "live" /\ raised = "none") =>
          /\ _running = "value" /\ runningBy = "watch"
          /\ watchPc # "none" /\ cbPc # "none"
    /\ (op = "ctor" /\ mainPc \notin {"ctor", "init_event", "init_cb", "init_watch",
                                      "init_wait", "live"}) =>
          mainPc = "failed" /\ raised = "system_error"

C8_Witness ==
    /\ mainPc = "live" /\ op = "ctor" /\ _running = "value"
    /\ watchPc \in {"check", "issue"} /\ cbPc = "loop"

Ids(seq) == {seq[k].id : k \in 1..Len(seq)}

\* how many times record i was passed to the callback
Invocations(i) == Cardinality({k \in 1..Len(delivered) : delivered[k].id = i})

RecordIds == 1..(2 * MaxOps)

\* C9: a record the monitoring thread has put in the queue is passed to the
\* callback, once and only once, unless the stop flag is set, the callback is
\* empty or a callback invocation does not return.
C9_EventualDelivery ==
    /\ \A i \in RecordIds :
          (i \in Ids(_callback_information))
              ~> (Invocations(i) = 1 \/ _destroy \/ escaped \/ ~_callback)
    /\ [](\A i \in RecordIds : Invocations(i) <= 1)

C9_Witness ==
    /\ Len(delivered) >= 3
    /\ \A i \in Ids(delivered) : Invocations(i) = 1

\* C10: a constructor called with a path that does not exist throws
\* std::system_error before init() runs: no thread is ever started and the
\* callback is never invoked.
C10_FailedConstructionStartsNothing ==
    (op = "ctor" /\ mainPc # "ctor" /\ _path = MissingPath) =>
        /\ mainPc = "failed" /\ raised = "system_error"
        /\ spawned = 0 /\ watchPc = "none" /\ cbPc = "none"
        /\ delivered = <<>>

C10_Witness == mainPc = "failed" /\ _path = MissingPath /\ raised = "system_error"

\* C11: a constructor whose path resolution fails because the path does not
\* exist leaves the set of open OS handles as it was before the call (empty).
C11_FailedResolutionLeavesNoHandle ==
    (op = "ctor" /\ mainPc = "failed" /\ _path = MissingPath) => osOpen = {}

\* C12: at most one invocation of the session's user callback is in progress,
\* whatever sequence of construction, copy assignment and destruction the
\* object goes through.
\* init() starts a dispatch thread only on an object that has none.
C12_NoConcurrentCallbacks ==
    /\ inCallback <= 1
    /\ mainPc = "init_cb" => cbPc = "none"

\* a callback is executing while the destroy() of a copy assignment is under
\* way, with more records waiting behind it
C12_Witness ==
    /\ inCallback = 1 /\ cbPc = "in_callback" /\ op = "assign" /\ InDestroy
    /\ Len(callback_information) + Len(_callback_information) >= 2

\* C13: the dispatch loop ends only with the stop flag set and the queue
\* empty: whenever the dispatch thread has left callback_thread() by the end
\* of its loop, the shared queue holds no record.
C13_DispatcherDrainsBeforeExit ==
    (cbPc = "done" /\ ~escaped) => _callback_information = <<>>

\* C14: a record whose action code or mask has no entry in the translation
\* is dropped and the monitoring thread keeps running: it leaves its loop
\* only when the stop flag is set.
C14_UnknownCodesDropped == watchPc = "done" => _destroy

\* C15: once destroy() has performed its wake action, a monitoring thread
\* that is in the OS notification call comes out of it.
C15_StopWakesMonitor ==
    (mainPc \in {"d_notify", "d_join_watch"} /\ watchPc \in {"read", "wait"})
        => ENABLED Watch

\* C16: the stop flag starts false and, once it is true, no step of any
\* thread makes it false again.
C16_StopFlagOneWay ==
    /\ ~_destroy
    /\ [][_destroy => _destroy']_vars

\* a copy assignment has run init() again and returned, the flag still set
C16_Witness ==
    /\ _destroy /\ op = "assign" /\ mainPc = "live" /\ raised = "none" /\ spawned = 4

\* C17: while the dispatch thread processes a batch or executes the user
\* callback it does not own the queue mutex, so the monitoring thread's
\* append can take the lock; and the shared queue is read and written only
\* by a thread that takes the mutex for the access, i.e. never while another
\* thread owns it.
C17_QueueLockNotHeldInCallback ==
    /\ [](cbPc \in {"dispatch", "in_callback"} => _callback_mutex = "free")
    /\ []((cbPc = "in_callback" /\ watchPc = "lock") => ENABLED WatchInsert)
    /\ [][_callback_information' # _callback_information => _callback_mutex = "free"]_vars

\* the monitoring thread has appended a batch while a callback is executing
C17_Witness == cbPc = "in_callback" /\ _callback_information # <<>>

\* C18: the OS notification handle is open as long as the monitoring thread
\* that uses it is in its loop or its cleanup, and a handle is closed only
\* in a state where the monitoring thread has exited.
C18_HandleOutlivesMonitor ==
    /\ [](watchPc \notin {"none", "done"} => (_directory # 0 /\ _directory \in osOpen))
    /\ [][~(osOpen \subseteq osOpen') => watchPc \in {"none", "done"}]_vars

\* the handle a monitoring thread read records from has been closed
C18_Witness ==
    /\ mainPc = "destructed" /\ _directory # 0 /\ _directory \notin osOpen
    /\ Len(delivered) >= 1

\* C19: the promise a run of init() waits on is completed by the monitoring
\* thread of that run, with a value, and by no other thread.
C19_ReadinessOnlyByMonitor ==
    (mainPc = "init_wait" /\ _running # "unset")
        => (_running = "value" /\ runningBy = "watch")

\* C20: destroy() joins only worker threads that are joinable and closes
\* only a handle that is open, also when it runs after a copy assignment
\* that failed during re-construction.
C20_TeardownOncePerResource ==
    /\ (mainPc = "d_join_watch" => watchPc # "none")
    /\ (mainPc = "d_join_cb" => cbPc # "none")
    /\ ~doubleClose

====
